---- MODULE Spec2Model ----
(***************************************************************************)
(* Stop-quote calculator (src/main.py): the holdings parser, the orders    *)
(* parser, the quote calculator and the reporter, run in sequence by main. *)
(*                                                                         *)
(* Units.  Python floats are modelled by scaled integers: prices in cents, *)
(* quantities in tenths of a share, gains in whole percent.  A dict is a   *)
(* function whose DOMAIN is its key set; a missing key is a key outside    *)
(* the DOMAIN.  Tickers are the integers 1..NumSymbols, numbered in the    *)
(* order in which their strings sort.                                      *)
(***************************************************************************)
EXTENDS Integers, Sequences, FiniteSets

NumSymbols == 2
MaxLines == 3

Symbols == 1..NumSymbols

\* stock details: the keys of one record of stocks_dict
STOCK_GAIN == "GAIN%"
STOCK_LAST_PRICE == "LAST_PRICE$"
STOCK_95STOP_QUOTE == "95%STOP_QUOTE$"
STOCK_EXIST_STOP == "EXIST_STOP$"
STOCK_NEW_STOP == "NEW_STOP$"
STOCK_HOLDING_QUANTITY == "HOLDING_QUANTITY"
STOCK_ORDER_QUANTITY == "ORDER_QUANTITY"
\* 0.95, as a number of hundredths
PERCENT_FOR_STOP_QUOTE == 95
GAIN_RATE == 5

OUTPUT_ARG_YES == "yes"
OUTPUT_ARG_NO == "no"

\* The values EXIST_STOP$ and NEW_STOP$ hold: '' or a float or an int.
\* v is the value in cents whatever the type, so float() of it is v itself.
Blank == [t |-> "str", v |-> 0]
Float(cents) == [t |-> "float", v |-> cents]
PyInt(cents) == [t |-> "int", v |-> (cents \div 100) * 100]

\* The three places where a float is rounded to a decimal position.
Sites == {"95stop", "avg", "tier"}

\* round(): num/den to the nearest integer.  Off a tie the binary64 error is
\* far below the distance to the tie, so the nearest integer is the result.
\* On a decimal tie the binary64 operand lies on one side of it, the side
\* depending on the operands: up (0 or 1) is that side.
PyRound(num, den, up) ==
    LET q == num \div den
        r == num % den
    IN  IF 2 * r < den THEN q
        ELSE IF 2 * r > den THEN q + 1
        ELSE q + up

\* d[k] = val
DictSet(d, k, val) == [x \in (DOMAIN d) \cup {k} |-> IF x = k THEN val ELSE d[x]]

\* calc_95stop_quote with int(x * 100) / 100 in the place of round(x, 2)
calc_95stop_quote_truncating(dict, tie) ==
    [stock \in DOMAIN dict |->
        DictSet(dict[stock], STOCK_95STOP_QUOTE,
                (dict[stock][STOCK_LAST_PRICE] * PERCENT_FOR_STOP_QUOTE) \div 100)]

\* calc_95stop_quote taking 95% of the candidate it stored before, when there
\* is one, in the place of the last price
calc_95stop_quote_compounding(dict, tie) ==
    [stock \in DOMAIN dict |->
        LET base == IF STOCK_95STOP_QUOTE \in DOMAIN dict[stock]
                    THEN dict[stock][STOCK_95STOP_QUOTE]
                    ELSE dict[stock][STOCK_LAST_PRICE]
        IN  DictSet(dict[stock], STOCK_95STOP_QUOTE,
                    PyRound(base * PERCENT_FOR_STOP_QUOTE, 100, tie["95stop"]))]

\* calc_95stop_quote
calc_95stop_quote(dict, tie) ==
    [stock \in DOMAIN dict |->
        LET last_price == dict[stock][STOCK_LAST_PRICE]
            stop_quote_price ==
                PyRound(last_price * PERCENT_FOR_STOP_QUOTE, 100, tie["95stop"])
        IN  DictSet(dict[stock], STOCK_95STOP_QUOTE, stop_quote_price)]

\* the condition of calc_avg_quote with > and < in the place of >= and <=
is_eligible_strict(stock_details) ==
    \/ stock_details[STOCK_GAIN] > GAIN_RATE
    \/ stock_details[STOCK_GAIN] < -GAIN_RATE
    \/ stock_details[STOCK_EXIST_STOP] # Blank

\* calc_avg_quote, the condition under which a stop quote is calculated
is_eligible(stock_details) ==
    \/ stock_details[STOCK_GAIN] >= GAIN_RATE
    \/ stock_details[STOCK_GAIN] <= -GAIN_RATE
    \/ stock_details[STOCK_EXIST_STOP] # Blank

\* the precision reduction with int() applied from 50 on
reduce_precision_int_from_50(avg, tie) ==
    IF avg >= 50 * 100 THEN PyInt(avg)
    ELSE Float(avg)

\* calc_avg_quote, the precision of the average: no decimal from 1000, one
\* decimal from 50, else the two decimals it has
reduce_precision(avg, tie) ==
    IF avg >= 1000 * 100 THEN PyInt(avg)
    ELSE IF avg >= 50 * 100 THEN Float(PyRound(avg, 10, tie["tier"]) * 10)
    ELSE Float(avg)

\* the branch without an existing stop rounding to the nearest integer
new_stop_quote_rounding(stock_95stop_quote) ==
    [t |-> "int", v |-> ((stock_95stop_quote + 50) \div 100) * 100]

\* calc_avg_quote, no existing stop: the candidate truncated by int()
new_stop_quote(stock_95stop_quote) == PyInt(stock_95stop_quote)

\* calc_avg_quote, the value stored under NEW_STOP$ for one record
avg_stop_quote(stock_details, tie) ==
    IF is_eligible(stock_details)
    THEN
        LET stock_95stop_quote == stock_details[STOCK_95STOP_QUOTE]
        IN  IF stock_details[STOCK_EXIST_STOP] # Blank
            THEN
                LET exist_stop == stock_details[STOCK_EXIST_STOP].v
                    avg == PyRound(stock_95stop_quote + exist_stop, 2, tie["avg"])
                IN  reduce_precision(avg, tie)
            ELSE new_stop_quote(stock_95stop_quote)
    ELSE Blank

calc_avg_quote(dict, tie) ==
    [stock \in DOMAIN dict |->
        DictSet(dict[stock], STOCK_NEW_STOP, avg_stop_quote(dict[stock], tie))]

\* the first loop of calc_quotes storing 0.0 in the place of ''
fill_exist_stop_zero(dict) ==
    [stock \in DOMAIN dict |->
        IF STOCK_EXIST_STOP \in DOMAIN dict[stock] THEN dict[stock]
        ELSE DictSet(dict[stock], STOCK_EXIST_STOP, Float(0))]

\* the first loop of calc_quotes: fill '' for a missing EXIST_STOP$
fill_exist_stop(dict) ==
    [stock \in DOMAIN dict |->
        IF STOCK_EXIST_STOP \in DOMAIN dict[stock] THEN dict[stock]
        ELSE DictSet(dict[stock], STOCK_EXIST_STOP, Blank)]

calc_quotes(dict, tie) ==
    calc_avg_quote(calc_95stop_quote(fill_exist_stop(dict), tie), tie)

\* int(): truncation of a non-negative quantity given in tenths
PyIntQuantity(tenths) == (tenths \div 10) * 10

(***************************************************************************)
(* Inputs.  A line of a file is modelled by what the two regular           *)
(* expressions applied to it yield.                                        *)
(***************************************************************************)
Gains == {0, GAIN_RATE}
Prices == {10000}
HoldingQuantities == {105}
StopPrices == {9000}
OrderQuantities == {100}

\* extract_stocks: r_stock is a prefix of r_unit_cost and both are anchored at
\* the start of the line, so a full-record match implies a bare-symbol match of
\* the same symbol.  "unparsable" is a full-record match whose quantity or
\* price text float() rejects ("(\d*.?\d*)" also matches "" and "x").
HoldingLines ==
    {[kind |-> "none"]}
    \cup [kind : {"bare"}, symbol : Symbols]
    \cup [kind : {"unparsable"}, symbol : Symbols]
    \cup [kind : {"full"}, symbol : Symbols, gain : Gains,
          quantity : HoldingQuantities, price : Prices]

\* extract_orders: when r_order matches, r_stock matches too, but its greedy
\* prefix may stop at another quoted token: bare_symbol need not be symbol.
\* "unparsable" is a full match whose quantity text float() rejects.
OrderLines ==
    {[kind |-> "none"]}
    \cup [kind : {"bare"}, bare_symbol : Symbols]
    \cup [kind : {"unparsable"}, bare_symbol : Symbols, symbol : Symbols,
          stop : StopPrices]
    \cup [kind : {"full"}, bare_symbol : Symbols, symbol : Symbols,
          quantity : OrderQuantities, stop : StopPrices]

\* extract_stocks: the record built from a full-record match
new_stock_details(gain, price, quantity) ==
    [k \in {STOCK_GAIN, STOCK_LAST_PRICE, STOCK_HOLDING_QUANTITY} |->
        IF k = STOCK_GAIN THEN gain
        ELSE IF k = STOCK_LAST_PRICE THEN price
        ELSE quantity]

\* extract_orders: the two assignments to the record of a full match
set_order(stock_details, stop, quantity) ==
    DictSet(DictSet(stock_details, STOCK_EXIST_STOP, Float(stop)),
            STOCK_ORDER_QUANTITY, quantity)

VARIABLES
    pc,             \* the statement of main that runs next
    csv_file,       \* files_dict[OUTPUT_FLAG]
    stocks_dict,    \* symbol -> record
    key_order,      \* the keys of stocks_dict in insertion order
    stock_counter,  \* the local stock_counter of the parser that is running
    stock_handle,   \* the local stock_handle of extract_orders
    full_matches,   \* lines of the holdings file r_unit_cost has matched so far
    lines_read,     \* lines of the current file consumed so far
    fp_tie,         \* per rounding site, the side binary64 put a decimal tie on
    output,         \* what print_results wrote to its stream
    exit_status,    \* <<>> while running, <<status>> once the process ended
    diag            \* why the process ended early

vars == <<pc, csv_file, stocks_dict, key_order, stock_counter, stock_handle,
          full_matches, lines_read, fp_tie, output, exit_status, diag>>

\* before any rounding has been done
NoTie == [site \in Sites |-> 0]
EmptyDict == [x \in {} |-> Blank]

Init ==
    /\ pc = "get_input_file_argparse"
    /\ csv_file = OUTPUT_ARG_NO
    /\ stocks_dict = EmptyDict
    /\ key_order = <<>>
    /\ stock_counter = <<>>
    /\ stock_handle = <<>>
    /\ full_matches = 0
    /\ lines_read = 0
    /\ fp_tie = NoTie
    /\ output = <<>>
    /\ exit_status = <<>>
    /\ diag = "none"

\* sys.exit(status), or an uncaught exception (status 1)
Terminate(status, why) ==
    /\ pc' = "terminated"
    /\ exit_status' = <<status>>
    /\ diag' = why

\* get_input_file_argparse: argparse rejects the command line (status 2), the
\* two file lists are equal, a file is missing or empty (status 1), or the
\* arguments are returned.
get_input_file_argparse ==
    /\ pc = "get_input_file_argparse"
    /\ \E outcome \in {"usage", "same_files", "not_found", "size_zero", "ok"},
          csv \in {OUTPUT_ARG_YES, OUTPUT_ARG_NO} :
          IF outcome = "ok"
          THEN /\ pc' = "extract_stocks"
               /\ csv_file' = csv
               /\ UNCHANGED <<exit_status, diag>>
          ELSE /\ Terminate(IF outcome = "usage" THEN 2 ELSE 1, outcome)
               /\ UNCHANGED csv_file
    /\ UNCHANGED <<stocks_dict, key_order, stock_counter, stock_handle,
                   full_matches, lines_read, fp_tie, output>>

\* extract_stocks, the body of the loop for one line
stocks_line(line) ==
    /\ pc = "extract_stocks"
    /\ stock_counter' =
          IF line.kind = "none" THEN stock_counter
          ELSE Append(stock_counter, line.symbol)
    /\ full_matches' =
          IF line.kind \in {"full", "unparsable"} THEN full_matches + 1
          ELSE full_matches
    /\ IF line.kind = "unparsable"
       THEN /\ Terminate(1, "ValueError")
            /\ UNCHANGED <<stocks_dict, key_order>>
       ELSE IF line.kind = "full"
       THEN /\ stocks_dict' =
                  DictSet(stocks_dict, line.symbol,
                          new_stock_details(line.gain, line.price, line.quantity))
            /\ key_order' =
                  IF line.symbol \in DOMAIN stocks_dict THEN key_order
                  ELSE Append(key_order, line.symbol)
            /\ UNCHANGED <<pc, exit_status, diag>>
       ELSE UNCHANGED <<stocks_dict, key_order, pc, exit_status, diag>>
    /\ lines_read' = lines_read + 1
    /\ UNCHANGED <<csv_file, stock_handle, fp_tie, output>>

\* extract_stocks, one iteration of the loop over the lines
extract_stocks_line ==
    /\ lines_read < MaxLines
    /\ \E line \in HoldingLines : stocks_line(line)

\* extract_stocks, after the loop: the reconciliation, then the return, which
\* ends the life of the locals.  verify_input_file rejected an empty file, so
\* one line at least was read.
extract_stocks_reconcile ==
    /\ pc = "extract_stocks"
    /\ lines_read >= 1
    /\ IF Cardinality(DOMAIN stocks_dict) # Len(stock_counter)
       THEN /\ Terminate(1, "holdings_mismatch")
            /\ UNCHANGED <<stock_counter, full_matches, lines_read>>
       ELSE /\ pc' = "extract_orders"
            /\ stock_counter' = <<>>
            /\ full_matches' = 0
            /\ lines_read' = 0
            /\ UNCHANGED <<exit_status, diag>>
    /\ UNCHANGED <<csv_file, stocks_dict, key_order, stock_handle, fp_tie, output>>

\* extract_orders, the body of the loop for one line
orders_line(line) ==
    /\ pc = "extract_orders"
    /\ stock_counter' =
          IF line.kind = "none" THEN stock_counter
          ELSE Append(stock_counter, line.bare_symbol)
    /\ IF line.kind \in {"none", "bare"}
       THEN UNCHANGED <<stocks_dict, stock_handle, pc, exit_status, diag>>
       ELSE IF line.symbol \notin DOMAIN stocks_dict
       THEN \* stocks_dict[m_order.group(1)] raises
            /\ Terminate(1, "KeyError")
            /\ UNCHANGED <<stocks_dict, stock_handle>>
       ELSE IF line.kind = "unparsable"
       THEN \* EXIST_STOP$ is set on the record, then float() raises
            /\ stocks_dict' =
                  [stocks_dict EXCEPT ![line.symbol] =
                      DictSet(@, STOCK_EXIST_STOP, Float(line.stop))]
            /\ Terminate(1, "ValueError")
            /\ UNCHANGED stock_handle
       ELSE /\ stocks_dict' =
                  [stocks_dict EXCEPT ![line.symbol] =
                      set_order(@, line.stop, line.quantity)]
            /\ stock_handle' = Append(stock_handle, line.symbol)
            /\ UNCHANGED <<pc, exit_status, diag>>
    /\ lines_read' = lines_read + 1
    /\ UNCHANGED <<csv_file, key_order, full_matches, fp_tie, output>>

\* extract_orders, one iteration of the loop over the lines
extract_orders_line ==
    /\ lines_read < MaxLines
    /\ \E line \in OrderLines : orders_line(line)

\* the reconciliation of extract_orders printing its error without sys.exit
extract_orders_reconcile_no_exit ==
    /\ pc = "extract_orders"
    /\ lines_read >= 1
    /\ diag' = IF Len(stock_counter) # Len(stock_handle)
               THEN "orders_mismatch" ELSE diag
    /\ pc' = "calc_quotes"
    /\ stock_counter' = <<>>
    /\ stock_handle' = <<>>
    /\ lines_read' = 0
    /\ UNCHANGED <<csv_file, stocks_dict, key_order, full_matches, fp_tie, output,
                   exit_status>>

\* extract_orders, after the loop: the reconciliation, then the return
extract_orders_reconcile ==
    /\ pc = "extract_orders"
    /\ lines_read >= 1
    /\ IF Len(stock_counter) # Len(stock_handle)
       THEN /\ Terminate(1, "orders_mismatch")
            /\ UNCHANGED <<stock_counter, stock_handle, lines_read>>
       ELSE /\ pc' = "calc_quotes"
            /\ stock_counter' = <<>>
            /\ stock_handle' = <<>>
            /\ lines_read' = 0
            /\ UNCHANGED <<exit_status, diag>>
    /\ UNCHANGED <<csv_file, stocks_dict, key_order, full_matches, fp_tie, output>>

\* calc_quotes.  The side of a tie is a fact of binary64 arithmetic the model
\* does not compute: it is drawn when the rounding is done and kept, since the
\* same operands round the same way every time.
CalcQuotes ==
    /\ pc = "calc_quotes"
    /\ \E tie \in [Sites -> {0, 1}] :
          /\ fp_tie' = tie
          /\ stocks_dict' = calc_quotes(stocks_dict, tie)
    /\ pc' = "print_results"
    /\ UNCHANGED <<csv_file, key_order, stock_counter, stock_handle,
                   full_matches, lines_read, output, exit_status, diag>>

\* sorted(): insertion of one key into an ascending sequence, then the sort
RECURSIVE SortedInsert(_, _)
SortedInsert(seq, x) ==
    IF seq = <<>> THEN <<x>>
    ELSE IF x < Head(seq) THEN <<x>> \o seq
    ELSE <<Head(seq)>> \o SortedInsert(Tail(seq), x)

RECURSIVE sorted(_)
sorted(seq) ==
    IF seq = <<>> THEN <<>>
    ELSE SortedInsert(sorted(Tail(seq)), Head(seq))

LOWER_COMMENT == "New stop quote is lower than the existing! "
QUANTITY_COMMENT == "Quantities are different! "

\* the comments of one row with the holding quantity compared as it is
comments_without_int(stock_details) ==
    IF \/ stock_details[STOCK_EXIST_STOP].t = "str"
       \/ stock_details[STOCK_NEW_STOP].t = "str"
    THEN ""
    ELSE (IF stock_details[STOCK_EXIST_STOP].v > stock_details[STOCK_NEW_STOP].v
          THEN LOWER_COMMENT ELSE "")
         \o
         (IF stock_details[STOCK_HOLDING_QUANTITY]
                # stock_details[STOCK_ORDER_QUANTITY]
          THEN QUANTITY_COMMENT ELSE "")

\* print_results, the comments of one row.  float('') raises ValueError, which
\* the except clause swallows; the quantities are compared in the else clause
\* of the try only.
comments(stock_details) ==
    IF \/ stock_details[STOCK_EXIST_STOP].t = "str"
       \/ stock_details[STOCK_NEW_STOP].t = "str"
    THEN ""
    ELSE (IF stock_details[STOCK_EXIST_STOP].v > stock_details[STOCK_NEW_STOP].v
          THEN LOWER_COMMENT ELSE "")
         \o
         (IF PyIntQuantity(stock_details[STOCK_HOLDING_QUANTITY])
                # stock_details[STOCK_ORDER_QUANTITY]
          THEN QUANTITY_COMMENT ELSE "")

\* print_results, one written row
row(stock, stock_details) ==
    [symbol |-> stock,
     gain |-> stock_details[STOCK_GAIN],
     last_price |-> stock_details[STOCK_LAST_PRICE],
     exist_stop |-> stock_details[STOCK_EXIST_STOP],
     new_stop |-> stock_details[STOCK_NEW_STOP],
     comments |-> comments(stock_details)]

HEADER == "Symbol,Gain,Last Price,Existing Stop Quote,New Stop Quote,Comments"

\* print_results: the keys are sorted, the stream is opened (for a csv file
\* open(..., 'x') raises when the file exists or its directory does not), the
\* header and one row per record are written.
print_results ==
    /\ pc = "print_results"
    /\ \E opened \in BOOLEAN :
          IF csv_file = OUTPUT_ARG_YES /\ ~opened
          THEN /\ Terminate(1, "OSError")
               /\ UNCHANGED output
          ELSE /\ output' =
                    <<HEADER>> \o
                    [i \in 1..Len(key_order) |->
                        row(sorted(key_order)[i], stocks_dict[sorted(key_order)[i]])]
               /\ pc' = "exit"
               /\ UNCHANGED <<exit_status, diag>>
    /\ UNCHANGED <<csv_file, stocks_dict, key_order, stock_counter, stock_handle,
                   full_matches, lines_read, fp_tie>>

\* main, its last statement: sys.exit(0)
main_exit ==
    /\ pc = "exit"
    /\ Terminate(0, "none")
    /\ UNCHANGED <<csv_file, stocks_dict, key_order, stock_counter, stock_handle,
                   full_matches, lines_read, fp_tie, output>>

Next ==
    \/ get_input_file_argparse
    \/ extract_stocks_line
    \/ extract_stocks_reconcile
    \/ extract_orders_line
    \/ extract_orders_reconcile
    \/ CalcQuotes
    \/ print_results
    \/ main_exit

Spec == Init /\ [][Next]_vars

(***************************************************************************)
(* The calculator and the reporter on their own: main from calc_quotes on, *)
(* started on a merged mapping as the two parsers leave it.  One record    *)
(* takes its values from sets that reach every rounding tier, every tie    *)
(* and both sides of the gain thresholds; the others from the small sets.  *)
(***************************************************************************)
CalcGains == {-GAIN_RATE, -4, 4, GAIN_RATE}
CalcPrices == {30, 6000, 6081, 10000, 105300, 200000}
CalcStops == {28, 5500, 5773, 100045, 185000}
CalcHoldingQuantities == {105, 110}

MergedRecords(gains, prices, quantities, stops, order_quantities) ==
    LET held == {new_stock_details(g, p, q) :
                    g \in gains, p \in prices, q \in quantities}
    IN  held \cup {set_order(r, s, o) :
                    r \in held, s \in stops, o \in order_quantities}

KeyOrders(keys) ==
    {seq \in [1..Cardinality(keys) -> keys] :
        \A i, j \in 1..Cardinality(keys) : seq[i] = seq[j] => i = j}

InitCalc ==
    /\ pc = "calc_quotes"
    /\ csv_file \in {OUTPUT_ARG_YES, OUTPUT_ARG_NO}
    /\ \E keys \in SUBSET (Symbols \ {1}) :
       \E first \in MergedRecords(CalcGains, CalcPrices, CalcHoldingQuantities,
                                  CalcStops, OrderQuantities),
          rest \in [keys -> MergedRecords(Gains, Prices, HoldingQuantities,
                                          StopPrices, OrderQuantities)] :
          /\ stocks_dict = [stock \in keys \cup {1} |->
                                IF stock = 1 THEN first ELSE rest[stock]]
          /\ key_order \in KeyOrders(keys \cup {1})
    /\ stock_counter = <<>>
    /\ stock_handle = <<>>
    /\ full_matches = 0
    /\ lines_read = 0
    /\ fp_tie = NoTie
    /\ output = <<>>
    /\ exit_status = <<>>
    /\ diag = "none"

NextCalc ==
    \/ CalcQuotes
    \/ print_results
    \/ main_exit

SpecCalc == InitCalc /\ [][NextCalc]_vars

(***************************************************************************)
(* Properties of the calculator, checked under SpecCalc.                   *)
(***************************************************************************)
\* the records calc_quotes has been applied to
Calculated == {stock \in DOMAIN stocks_dict : STOCK_NEW_STOP \in DOMAIN stocks_dict[stock]}
WithStop == {stock \in Calculated : stocks_dict[stock][STOCK_EXIST_STOP] # Blank}

Min(a, b) == IF a <= b THEN a ELSE b
Max(a, b) == IF a >= b THEN a ELSE b
Abs(a) == IF a >= 0 THEN a ELSE -a

\* C3, as stated: after calc_quotes every record with an existing stop has its
\* recommended stop between min(candidateStop, existingStop) and
\* max(candidateStop, existingStop) inclusive.
C3_RecommendedBetweenCandidateAndExisting ==
    \A stock \in WithStop :
        LET d == stocks_dict[stock]
        IN  /\ d[STOCK_NEW_STOP].v >= Min(d[STOCK_95STOP_QUOTE], d[STOCK_EXIST_STOP].v)
            /\ d[STOCK_NEW_STOP].v <= Max(d[STOCK_95STOP_QUOTE], d[STOCK_EXIST_STOP].v)

\* C3, amended: the recommended stop lies in [min, max] up to the precision
\* reduction of the tier of the 2-decimal average: exactly when the average is
\* below 50; within 0.05 of the interval when it is 50 or more and below 1000
\* (one decimal); above min - 1 and at most max when it is 1000 or more
\* (truncation to an integer).
C3_RecommendedWithinTierPrecision ==
    \A stock \in WithStop :
        LET d  == stocks_dict[stock]
            r  == d[STOCK_NEW_STOP].v
            k  == d[STOCK_95STOP_QUOTE]
            e  == d[STOCK_EXIST_STOP].v
            lo == Min(k, e)
            hi == Max(k, e)
        IN  \E avg \in {(k + e) \div 2, (k + e) \div 2 + 1} :
                /\ Abs(2 * avg - (k + e)) <= 1
                /\ IF avg >= 100000 THEN lo - 100 < r /\ r <= hi
                   ELSE IF avg >= 5000 THEN lo - 5 <= r /\ r <= hi + 5
                   ELSE lo <= r /\ r <= hi

\* C3, witness: a truncated average of 1000 or more that fell below both prices
C3_TruncatedBelowBoth ==
    \E stock \in WithStop :
        LET d == stocks_dict[stock]
        IN  /\ d[STOCK_NEW_STOP].t = "int"
            /\ d[STOCK_NEW_STOP].v < Min(d[STOCK_95STOP_QUOTE], d[STOCK_EXIST_STOP].v)

\* C4: after calc_quotes a record has a recommended stop if and only if its
\* gain is >= 5 or <= -5 or it has an existing stop.
C4_RecommendedIffEligible ==
    \A stock \in Calculated :
        LET d == stocks_dict[stock]
        IN  (d[STOCK_NEW_STOP] # Blank)
                <=> \/ d[STOCK_GAIN] >= 5
                    \/ d[STOCK_GAIN] <= -5
                    \/ d[STOCK_EXIST_STOP] # Blank

\* C4, witness: a calculated record without a stop, its gain strictly inside
\* (-5, 5), beside one that became eligible through its existing stop alone
C4_IneligibleAndEligibleByStop ==
    /\ \E stock \in Calculated :
          /\ stocks_dict[stock][STOCK_EXIST_STOP] = Blank
          /\ stocks_dict[stock][STOCK_GAIN] \in {-4, 4}
          /\ stocks_dict[stock][STOCK_NEW_STOP] = Blank
    /\ \E stock \in WithStop :
          /\ stocks_dict[stock][STOCK_GAIN] \in {-4, 0, 4}
          /\ stocks_dict[stock][STOCK_NEW_STOP] # Blank

\* the tiered precision reduction of a 2-decimal average, as the spec words it
C5_Tiered(avg, new_stop) ==
    IF avg >= 100000
    THEN new_stop.t = "int" /\ new_stop.v % 100 = 0
         /\ new_stop.v <= avg /\ avg < new_stop.v + 100
    ELSE IF avg >= 5000
    THEN new_stop.t = "float" /\ new_stop.v % 10 = 0 /\ Abs(new_stop.v - avg) <= 5
    ELSE new_stop = Float(avg)

\* C5: the recommended stop of an eligible record is the reference value: with
\* an existing stop, the average rounded to 2 decimals, then truncated to an
\* integer from 1000, rounded to 1 decimal from 50, else kept; without one, the
\* candidate truncated to an integer.  100.00 gives 95, 2000.00 with 1850.00
\* gives 1875, 60.00 with 55.00 gives 56.0.
C5_RecommendedIsReferenceValue ==
    \A stock \in Calculated :
        LET d == stocks_dict[stock]
            k == d[STOCK_95STOP_QUOTE]
            e == d[STOCK_EXIST_STOP]
            new_stop == d[STOCK_NEW_STOP]
        IN  /\ e # Blank =>
                \E avg \in {(k + e.v) \div 2, (k + e.v) \div 2 + 1} :
                    /\ Abs(2 * avg - (k + e.v)) <= 1
                    /\ C5_Tiered(avg, new_stop)
            /\ e = Blank /\ new_stop # Blank =>
                /\ new_stop.t = "int" /\ new_stop.v % 100 = 0
                /\ new_stop.v <= k /\ k < new_stop.v + 100
            /\ d[STOCK_LAST_PRICE] = 10000 /\ e = Blank /\ new_stop # Blank =>
                new_stop = [t |-> "int", v |-> 9500]
            /\ d[STOCK_LAST_PRICE] = 200000 /\ e = Float(185000) =>
                new_stop = [t |-> "int", v |-> 187500]
            /\ d[STOCK_LAST_PRICE] = 6000 /\ e = Float(5500) =>
                new_stop = [t |-> "float", v |-> 5600]

\* C5, witness: the worked example of the tier from 1000 has been computed
C5_ExampleComputed ==
    \E stock \in Calculated :
        /\ stocks_dict[stock][STOCK_LAST_PRICE] = 200000
        /\ stocks_dict[stock][STOCK_EXIST_STOP] = Float(185000)
        /\ stocks_dict[stock][STOCK_NEW_STOP] = [t |-> "int", v |-> 187500]

\* C6: after calc_quotes the candidate stop of every record is 0.95 times its
\* last price rounded to 2 decimals (a nearest cent: at most half a cent
\* away), eligible or not.
C6_CandidateIsRounded95Percent ==
    \A stock \in Calculated :
        LET d == stocks_dict[stock]
        IN  /\ STOCK_95STOP_QUOTE \in DOMAIN d
            /\ Abs(100 * d[STOCK_95STOP_QUOTE] - 95 * d[STOCK_LAST_PRICE]) <= 50

\* C6, witness: an ineligible record whose candidate had to be rounded
\* (60.81 * 0.95 = 57.7695)
C6_IneligibleCandidateRounded ==
    \E stock \in Calculated :
        /\ stocks_dict[stock][STOCK_NEW_STOP] = Blank
        /\ stocks_dict[stock][STOCK_LAST_PRICE] = 6081
        /\ stocks_dict[stock][STOCK_95STOP_QUOTE] = 5777

\* C7: a second run of calc_quotes on the mapping a first run produced leaves
\* every record's recommended stop and candidate stop as they are.
C7_SecondRunChangesNothing ==
    Calculated # {} =>
        LET again == calc_quotes(stocks_dict, fp_tie)
        IN  /\ DOMAIN again = DOMAIN stocks_dict
            /\ \A stock \in DOMAIN stocks_dict :
                /\ again[stock][STOCK_NEW_STOP] = stocks_dict[stock][STOCK_NEW_STOP]
                /\ again[stock][STOCK_95STOP_QUOTE]
                        = stocks_dict[stock][STOCK_95STOP_QUOTE]

\* C7, witness: a first run that met a tie and averaged with an existing stop
C7_FirstRunDoneWithTie ==
    /\ fp_tie["95stop"] = 1
    /\ \E stock \in WithStop :
          /\ stocks_dict[stock][STOCK_LAST_PRICE] = 30
          /\ stocks_dict[stock][STOCK_95STOP_QUOTE] = 29

\* C10: calc_quotes adds and removes no record and changes no gain, last
\* price, holding quantity, order quantity or numeric existing stop; it writes
\* the candidate stop, the recommended stop and '' for a missing existing stop.
C10_CalcQuotesFrame ==
    [][CalcQuotes =>
        /\ DOMAIN stocks_dict' = DOMAIN stocks_dict
        /\ \A stock \in DOMAIN stocks_dict :
            LET old == stocks_dict[stock]
                new == stocks_dict'[stock]
            IN  /\ DOMAIN new = DOMAIN old \cup {STOCK_EXIST_STOP, STOCK_95STOP_QUOTE,
                                                  STOCK_NEW_STOP}
                /\ \A k \in DOMAIN old \ {STOCK_95STOP_QUOTE, STOCK_NEW_STOP} :
                        new[k] = old[k]
                /\ STOCK_EXIST_STOP \notin DOMAIN old => new[STOCK_EXIST_STOP] = Blank
    ]_vars

\* C10, witness: calc_quotes has run on a mapping holding a record with an
\* order and a record without one
C10_CalculatedBothKinds ==
    /\ \E stock \in Calculated : STOCK_ORDER_QUANTITY \in DOMAIN stocks_dict[stock]
    /\ \E stock \in Calculated :
          /\ STOCK_ORDER_QUANTITY \notin DOMAIN stocks_dict[stock]
          /\ stocks_dict[stock][STOCK_EXIST_STOP] = Blank

\* C9: a written row has a non-empty comments field if and only if its
\* recommended stop is present and lower than its existing stop, or its holding
\* quantity reduced to whole shares differs from its order quantity; there is
\* one row per record, in ascending symbol order.
C9_CommentsAndRowOrder ==
    output # <<>> =>
        /\ Len(output) = 1 + Cardinality(DOMAIN stocks_dict)
        /\ \A i, j \in 2..Len(output) : i < j => output[i].symbol < output[j].symbol
        /\ \A i \in 2..Len(output) :
            LET r == output[i]
            IN  /\ r.symbol \in DOMAIN stocks_dict
                /\ (r.comments # "") <=>
                    \/ /\ r.new_stop # Blank
                       /\ r.exist_stop # Blank
                       /\ r.new_stop.v < r.exist_stop.v
                    \/ LET d == stocks_dict[r.symbol]
                       IN  /\ STOCK_ORDER_QUANTITY \in DOMAIN d
                           /\ d[STOCK_HOLDING_QUANTITY] - (d[STOCK_HOLDING_QUANTITY] % 10)
                                # d[STOCK_ORDER_QUANTITY]

\* C9, witness: a report whose records were inserted in descending order, with
\* a row carrying both comments and a fractional holding that matches its order
C9_ReportWithBothComments ==
    /\ Len(output) >= 3
    /\ key_order[1] > key_order[2]
    /\ \E i \in 2..Len(output) : output[i].comments = LOWER_COMMENT \o QUANTITY_COMMENT
    /\ \E i \in 2..Len(output) :
          /\ output[i].comments = ""
          /\ output[i].exist_stop # Blank
          /\ stocks_dict[output[i].symbol][STOCK_HOLDING_QUANTITY] = 105

(***************************************************************************)
(* Properties of the parsers and of main, checked under Spec.              *)
(***************************************************************************)
\* C1: in extract_orders a line that fully matches the stop-order pattern for a
\* symbol that is no key of the mapping creates a record for that symbol with
\* its existing stop and order quantity, and the run goes on.
C1_OrphanOrderCreatesRecord ==
    [][\A line \in OrderLines :
        (/\ line.kind = "full"
         /\ line.symbol \notin DOMAIN stocks_dict
         /\ orders_line(line))
        => /\ pc' = "extract_orders"
           /\ exit_status' = <<>>
           /\ line.symbol \in DOMAIN stocks_dict'
           /\ stocks_dict'[line.symbol][STOCK_EXIST_STOP] = Float(line.stop)
           /\ stocks_dict'[line.symbol][STOCK_ORDER_QUANTITY] = line.quantity
    ]_vars

\* C2: extract_stocks ends the process with a non-zero status if and only if
\* the number of lines the bare-symbol pattern matched differs from the number
\* of lines the full-record pattern matched; with equal counts it returns.
C2_ExitIffCountsDiffer ==
    [][extract_stocks_reconcile =>
        ((pc' = "terminated" /\ exit_status' # <<0>>)
            <=> Len(stock_counter) # full_matches)
    ]_vars

\* C8: once a parser has detected a reconciliation mismatch the process has
\* ended with a non-zero status, nothing was calculated, nothing was written
\* and no step follows; a report is written only after both parsers returned
\* without mismatch and every record was calculated, and status zero follows
\* a written report only.
C8_FailFastNoPartialOutput ==
    /\ diag \in {"holdings_mismatch", "orders_mismatch"} =>
          /\ pc = "terminated"
          /\ exit_status \notin {<<>>, <<0>>}
          /\ output = <<>>
          /\ Calculated = {}
          /\ ~ENABLED Next
    /\ output # <<>> =>
          /\ diag = "none"
          /\ pc \in {"exit", "terminated"}
          /\ Calculated = DOMAIN stocks_dict
          /\ stock_counter = <<>> /\ stock_handle = <<>>
    /\ exit_status = <<0>> => output # <<>> /\ diag = "none"

\* C8, witness: the orders parser detected a mismatch after the holdings parser
\* had returned records
C8_OrdersMismatchAfterHoldings ==
    /\ diag = "orders_mismatch"
    /\ DOMAIN stocks_dict # {}
    /\ exit_status = <<1>>

====
